---- MODULE Spec2Model ----
(***************************************************************************)
(* A model of cluster::BlurredClusteringAlg                                *)
(* (larreco/RecoAlg/BlurredClusteringAlg.cxx): the hit image and the hit   *)
(* map built by ConvertRecobHitsToVector, the blur parameters and the      *)
(* kernel addressing of GaussianBlur / Convolve, the clustering loops of   *)
(* FindClusters and the conversion of bin clusters back to hits.           *)
(*                                                                         *)
(* Images are std::vector<std::vector<double>>; the model keeps an image   *)
(* as its two dimensions and the function from its non-zero cells to their *)
(* value, every other cell being 0.  Peak times, charges and widths are    *)
(* integers.                                                               *)
(***************************************************************************)
EXTENDS Integers, Sequences, FiniteSets, TLC

\* ------------------------------------------------------------------ bounds
\* The longest hit list handed to ConvertRecobHitsToVector.
MaxHits == 3

\* ------------------------------------------------------- program constants
\* The margin added around the hits (lines 190-193).
Margin == 20
\* The time GetTimeOfBin gives for a bin without a real hit (line 620).
NoTime == -10000

\* ---------------------------------------------------------------- inputs
Hit(w, t, c, r) == [wire |-> w, tick |-> t, charge |-> c, rms |-> r]

\* What a default-constructed art::Ptr<recob::Hit> is (line 129).
NullHit == Hit(-1, -1, 0, 0)

\* The hits the planes of the model hold: two neighbours, a far hit, a hit
\* sharing a cell with the first, and a hit on the first hit's wire that is a
\* neighbour of the second hit only.
HitUniverse ==
  { Hit(10, 100, 50, 2), Hit(11, 101, 40, 6), Hit(50, 500, 10, 1),
    Hit(10, 100, 40, 3), Hit(10, 102, 30, 4) }

\* A short track: three hits in a row across wires and ticks.
TrackLists ==
  { << Hit(10, 100, 50, 2), Hit(11, 101, 40, 6), Hit(12, 102, 30, 4) >> }

\* The detectors: [rows |-> ReadOutWindowSize(), wires |-> MaxWires()].
Detectors ==
  { [rows |-> 38, wires |-> 39], [rows |-> 40, wires |-> 39],
    [rows |-> 38, wires |-> 40], [rows |-> 4492, wires |-> 480] }

Range(s) == { s[i] : i \in DOMAIN s }

RECURSIVE SeqsOver(_, _)
\* The lists of at most n distinct elements of S.
SeqsOver(S, n) ==
  IF n = 0 THEN {<< >>}
  ELSE LET shorter == SeqsOver(S, n - 1)
       IN shorter \cup
          UNION { { Append(s, e) : e \in S \ Range(s) } :
                  s \in {q \in shorter : Len(q) = n - 1} }

SetMin(S) == CHOOSE m \in S : \A e \in S : m <= e
SetMax(S) == CHOOSE m \in S : \A e \in S : m >= e
Abs(n) == IF n < 0 THEN -n ELSE n

\* The parameter sets of the model (the fhicl::ParameterSet of reconfigure).
\* ClusterParams vary the clustering parameters with the blur switched off;
\* BlurParams vary the blur parameters and the kernel tiers.
BaseParams ==
  [ BlurWire |-> 1, BlurTick |-> 1, SigmaWire |-> 0, SigmaTick |-> 0,
    TickWidthRescale |-> 1, MaxTickWidthScale |-> 1, Kernels |-> {1},
    ClusterWireDistance |-> 1, ClusterTickDistance |-> 1,
    NeighboursThreshold |-> 0, MinNeighbours |-> 0, MinSize |-> 2,
    MinSeed |-> 20, TimeThreshold |-> 2, ChargeThreshold |-> 0 ]

ClusterParams ==
  { [BaseParams EXCEPT !.ClusterWireDistance = d[1], !.ClusterTickDistance = d[2],
                       !.NeighboursThreshold = nt, !.MinNeighbours = mn,
                       !.MinSize = ms, !.MinSeed = sd,
                       !.TimeThreshold = tt, !.ChargeThreshold = ct] :
      d \in {<<1, 1>>, <<2, 2>>}, nt \in {0, 1}, mn \in {0, 1, 2},
      ms \in {1, 2}, sd \in {20, 50}, tt \in {1, 2}, ct \in {0, 39} }

BlurParams ==
  { [BaseParams EXCEPT !.BlurWire = b[1], !.BlurTick = b[2],
                       !.SigmaWire = s[1], !.SigmaTick = s[2],
                       !.TickWidthRescale = rs, !.MaxTickWidthScale = mx,
                       !.Kernels = k] :
      b \in {<<1, 1>>, <<2, 1>>, <<1, 2>>}, s \in {<<1, 1>>, <<0, 2>>},
      rs \in {1, 2}, mx \in {0, 1, 3}, k \in {{1}, {1, 3}, {2, 3}, {}} }

ParameterSets == ClusterParams \cup BlurParams

VARIABLES
  pc,               \* where the run is
  err,              \* the exception that ended the run, "none" if none
  p,                \* the parameter set given to reconfigure
  det,              \* the detector: ReadOutWindowSize() and MaxWires()
  hits,             \* the hits of the plane
  fLowerHistTick, fUpperHistTick, fLowerHistWire, fUpperHistWire,
  fHitMap,          \* [<<wire, tick>> -> hit], the real hits
  image, widths,    \* the outputs of ConvertRecobHitsToVector
  blurred,          \* the image handed to FindClusters
  blur,             \* blurwire, blurtick, sigmawire, sigmatick of GaussianBlur
  divByZero,        \* line 313 divided by zero
  kernels,          \* the kernels of GaussianBlur: their sizes and tiers
  smear,            \* the contributions Convolve added to its copy
  used, niter, cluster, times,   \* the locals of FindClusters
  allcluster,       \* the bin clusters FindClusters gives
  oob,              \* values[niter] was read past the end of values
  seeds,            \* the bins taken as seeds so far, in order (history)
  clusters          \* the hit clusters ConvertBinsToClusters gives

vars == << pc, err, p, det, hits, fLowerHistTick, fUpperHistTick,
           fLowerHistWire, fUpperHistWire, fHitMap, image, widths, blurred,
           blur, divByZero, kernels, smear, used, niter, cluster, times,
           allcluster, oob, seeds, clusters >>

\* The variables of FindClusters and ConvertBinsToClusters.
fcVars == << used, niter, cluster, times, allcluster, oob, seeds, clusters >>

\* ------------------------------------------------------------ the members
fBlurWire            == p.BlurWire
fBlurTick            == p.BlurTick
fSigmaWire           == p.SigmaWire
fSigmaTick           == p.SigmaTick
fTickWidthRescale    == p.TickWidthRescale
fMaxTickWidthScale   == p.MaxTickWidthScale
fKernels             == p.Kernels
fClusterWireDistance == p.ClusterWireDistance
fClusterTickDistance == p.ClusterTickDistance
fNeighboursThreshold == p.NeighboursThreshold
fMinNeighbours       == p.MinNeighbours
fMinSize             == p.MinSize
fMinSeed             == p.MinSeed
fTimeThreshold       == p.TimeThreshold
fChargeThreshold     == p.ChargeThreshold

\* ------------------------------------------------------------------ images
\* An image of nx columns (wires) of ny cells (ticks) each.
EmptyImage(nx, ny) == [nx |-> nx, ny |-> ny, at |-> << >>]
NoImage == EmptyImage(0, 0)

\* image[x][y]
ImageAt(img, x, y) == IF <<x, y>> \in DOMAIN img.at THEN img.at[<<x, y>>] ELSE 0

\* image with image[x][y] = v (v is not 0)
ImageSet(img, x, y, v) ==
  [img EXCEPT !.at = [c \in DOMAIN img.at \cup {<<x, y>>} |->
                        IF c = <<x, y>> THEN v ELSE img.at[c]]]

NoBlur == [blurwire |-> 0, blurtick |-> 0, sigmawire |-> 0, sigmatick |-> 0]
NoKernels == [width |-> 0, height |-> 0, kernel_width |-> 0, kernel_height |-> 0,
              tiers |-> {}]

Init ==
  /\ pc = "construct"
  /\ err = "none"
  /\ p = BaseParams
  /\ det \in Detectors
  /\ hits = << >>
  /\ fLowerHistTick = 0 /\ fUpperHistTick = 0
  /\ fLowerHistWire = 0 /\ fUpperHistWire = 0
  /\ fHitMap = << >>
  /\ image = NoImage /\ widths = NoImage /\ blurred = NoImage
  /\ blur = NoBlur /\ divByZero = FALSE
  /\ kernels = NoKernels /\ smear = {}
  /\ used = {} /\ niter = 0 /\ cluster = << >> /\ times = << >>
  /\ allcluster = << >> /\ oob = FALSE /\ clusters = << >>
  /\ seeds = << >>

\* A faulty check of the kernels: any kernel will do.
KernelsNotEmpty(ks) == ks # {}

\* --------------------------------------------------------------- reconfigure
\* std::find(fKernels.begin(), fKernels.end(), 1) != fKernels.end()
KernelsHaveOne(ks) == 1 \in ks

\* The constructor's call of reconfigure(pset): the members are set, then the
\* kernels are checked and art::Exception(Configuration) is thrown.
reconfigure ==
  /\ pc = "construct"
  /\ \E pset \in ParameterSets :
       /\ p' = pset
       /\ IF KernelsHaveOne(pset.Kernels)
            THEN pc' = "ready" /\ err' = "none"
            ELSE pc' = "error" /\ err' = "Configuration"
  /\ UNCHANGED << det, hits, fLowerHistTick, fUpperHistTick, fLowerHistWire,
                  fUpperHistWire, fHitMap, image, widths, blurred,
                  blur, divByZero, kernels, smear, used, niter, cluster, times,
                  allcluster, oob, seeds, clusters >>

\* ------------------------------------------------- ConvertRecobHitsToVector
\* The hits a detector can give: inside its wires and its read-out window.
HitLists(d) ==
  { hs \in SeqsOver(HitUniverse, MaxHits) \cup TrackLists :
      \A i \in DOMAIN hs : hs[i].wire < d.wires /\ hs[i].tick < d.rows }

\* Lines 181-189: the loop lowers lowerTick / lowerWire from the detector's
\* sizes and raises upperTick / upperWire from 0.
LowerTick(hs) == SetMin({det.rows} \cup { hs[i].tick : i \in DOMAIN hs })
UpperTick(hs) == SetMax({0} \cup { hs[i].tick : i \in DOMAIN hs })
LowerWire(hs) == SetMin({det.wires} \cup { hs[i].wire : i \in DOMAIN hs })
UpperWire(hs) == SetMax({0} \cup { hs[i].wire : i \in DOMAIN hs })

\* A faulty fill: the last hit of a cell takes it.
TakesCellAlways(charge, stored) == TRUE

\* Line 211: a hit takes a cell only from a smaller charge.
TakesCell(charge, stored) == charge > stored

\* Lines 203-216 for one hit, on st = [image, widths, map], with the lower
\* corner (lw, lt) of the image.
FillHit(st, h, lw, lt) ==
  LET x == h.wire - lw
      y == h.tick - lt
  IN IF TakesCell(h.charge, ImageAt(st.image, x, y))
       THEN [ image  |-> ImageSet(st.image, x, y, h.charge),
              widths |-> ImageSet(st.widths, x, y, h.rms),
              map    |-> [k \in DOMAIN st.map \cup {<<h.wire, h.tick>>} |->
                            IF k = <<h.wire, h.tick>> THEN h ELSE st.map[k]] ]
       ELSE st

RECURSIVE FillHits(_, _, _, _, _)
\* Lines 203-216: the hits hs[i..] in order.
FillHits(st, hs, i, lw, lt) ==
  IF i > Len(hs) THEN st
  ELSE FillHits(FillHit(st, hs[i], lw, lt), hs, i + 1, lw, lt)

\* Lines 176-223.  A negative size given to the std::vector constructors of
\* lines 199-200 converts to a huge size_t and they throw std::length_error,
\* after the bounds are set and the hit map is cleared.
ConvertRecobHitsToVector ==
  /\ pc = "ready"
  /\ \E hs \in HitLists(det) :
     \E lt \in {LowerTick(hs) - Margin}, ut \in {UpperTick(hs) + Margin},
        lw \in {LowerWire(hs) - Margin}, uw \in {UpperWire(hs) + Margin} :
       LET nx == uw - lw
           ny == ut - lt
           st == FillHits([image |-> EmptyImage(nx, ny),
                           widths |-> EmptyImage(nx, ny), map |-> << >>],
                          hs, 1, lw, lt)
       IN /\ hits' = hs
          /\ fLowerHistTick' = lt /\ fUpperHistTick' = ut
          /\ fLowerHistWire' = lw /\ fUpperHistWire' = uw
          /\ IF nx < 0 \/ ny < 0
               THEN /\ pc' = "error" /\ err' = "length_error"
                    /\ fHitMap' = << >>
                    /\ UNCHANGED << image, widths >>
               ELSE /\ pc' = "image" /\ err' = "none"
                    /\ \E filled \in {st} :
                         /\ fHitMap' = filled.map
                         /\ image' = filled.image /\ widths' = filled.widths
  /\ UNCHANGED << p, det, blurred, blur, divByZero, kernels, smear, fcVars >>

\* ------------------------------------------------------------ GaussianBlur
\* A faulty test of the sigmas: one of them 0 is enough.
AnySigmaZero == fSigmaWire = 0 \/ fSigmaTick = 0

\* Lines 552-559: with both sigmas 0 the image is returned as it is.
BlurBypassed == fSigmaWire = 0 /\ fSigmaTick = 0

GaussianBlur ==
  /\ pc = "image"
  /\ IF BlurBypassed
       THEN pc' = "FindClusters" /\ blurred' = image
       ELSE pc' = "FindBlurringParameters" /\ UNCHANGED blurred
  /\ UNCHANGED << err, p, det, hits, fLowerHistTick, fUpperHistTick,
                  fLowerHistWire, fUpperHistWire, fHitMap, image, widths,
                  blur, divByZero, kernels, smear, used, niter, cluster, times,
                  allcluster, oob, seeds, clusters >>

\* -------------------------------------------------- FindBlurringParameters
\* Lines 301-312: the sums over the hit map.
HitPoints == DOMAIN fHitMap
RECURSIVE SumOver(_, _)
\* The sum of f[e] over the e in S.
SumOver(f, S) ==
  IF S = {} THEN 0
  ELSE LET e == CHOOSE e \in S : TRUE IN f[e] + SumOver(f, S \ {e})
nhits == Cardinality(HitPoints)
sumx  == SumOver([k \in HitPoints |-> k[1]], HitPoints)
sumy  == SumOver([k \in HitPoints |-> k[2]], HitPoints)
sumx2 == SumOver([k \in HitPoints |-> k[1] * k[1]], HitPoints)
sumxy == SumOver([k \in HitPoints |-> k[1] * k[2]], HitPoints)

\* Line 313: gradient = GradientNum / GradientDen.
GradientNum == nhits * sumxy - sumx * sumy
GradientDen == nhits * sumx2 - sumx * sumx

\* x*x as <<millions, rest>>, for 0 <= x < 2^18: the squares of line 316's
\* norm do not fit the 32-bit integers of the model checker.
Square(x) ==
  LET x1 == x \div 1000
      x0 == x % 1000
      low == 2 * x1 * x0 * 1000 + x0 * x0
  IN << x1 * x1 + low \div 1000000, low % 1000000 >>

\* x*x <= r*y*y
SquareLeq(x, r, y) ==
  LET a == Square(x)
      b == Square(y)
      c == << r * b[1] + (r * b[2]) \div 1000000, (r * b[2]) % 1000000 >>
  IN a[1] < c[1] \/ (a[1] = c[1] /\ a[2] <= c[2])

\* std::abs(std::round(b * c / sqrt(c*c + o*o))), lines 316-323, for the
\* component c of the vector (c, o) and b >= 0: the number of j in 1..b with
\* j - 1/2 <= b*c/sqrt(c*c + o*o), which is (2j-1)^2 o^2 <= (4b^2 - (2j-1)^2) c^2.
RoundScaled(b, c, o) ==
  Cardinality({ j \in 1..b :
                  SquareLeq((2 * j - 1) * Abs(o),
                            4 * b * b - (2 * j - 1) * (2 * j - 1), Abs(c)) })

\* std::max(..., 1.)
AtLeastOne(n) == IF n < 1 THEN 1 ELSE n

IntMin == -2147483647 - 1
\* What the conversion of a NaN to int gives: INT_MIN (x86) or 0 (ARM).
NaNToInt == {IntMin, 0}

\* Lines 297-330.  With GradientDen = 0 (GradientNum is 0 too) the division of
\* line 313 gives NaN, Unit() and the products keep it, std::max(NaN, 1.) is
\* NaN, and its conversion to int is undefined.
FindBlurringParameters ==
  /\ pc = "FindBlurringParameters"
  /\ IF GradientDen = 0
       THEN /\ divByZero' = TRUE
            /\ \E v \in NaNToInt :
                 blur' = [blurwire |-> v, blurtick |-> v,
                          sigmawire |-> v, sigmatick |-> v]
            /\ pc' = "error" /\ err' = "undefined"
       ELSE /\ divByZero' = FALSE
            /\ blur' =
                 [ blurwire  |-> AtLeastOne(RoundScaled(fBlurWire, GradientDen, GradientNum)),
                   blurtick  |-> AtLeastOne(RoundScaled(fBlurTick, GradientNum, GradientDen)),
                   sigmawire |-> AtLeastOne(RoundScaled(fSigmaWire, GradientDen, GradientNum)),
                   sigmatick |-> AtLeastOne(RoundScaled(fSigmaTick, GradientNum, GradientDen)) ]
            /\ pc' = "kernels" /\ err' = "none"
  /\ UNCHANGED << p, det, hits, fLowerHistTick, fUpperHistTick, fLowerHistWire,
                  fUpperHistWire, fHitMap, image, widths, blurred, kernels, smear,
                  fcVars >>

\* ----------------------------------------------------------------- kernels
\* Lines 561-611: one kernel of kernel_width * kernel_height weights for each
\* entry of fKernels.
MakeKernels ==
  /\ pc = "kernels"
  /\ LET kernel_scale == fMaxTickWidthScale + 1
         width == 2 * blur.blurwire + 1
     IN kernels' = [ width |-> width, height |-> 2 * blur.blurtick + 1,
                     kernel_width |-> width,
                     kernel_height |-> 2 * blur.blurtick * kernel_scale + 1,
                     tiers |-> fKernels ]
  /\ pc' = "Convolve"
  /\ UNCHANGED << err, p, det, hits, fLowerHistTick, fUpperHistTick,
                  fLowerHistWire, fUpperHistWire, fHitMap, image, widths,
                  blurred, blur, divByZero, smear, fcVars >>

\* ---------------------------------------------------------------- Convolve
\* Lines 267-268.
TickScale(w) ==
  LET scaled == w \div fTickWidthRescale
      capped == IF scaled < fMaxTickWidthScale THEN scaled ELSE fMaxTickWidthScale
  IN IF capped > 1 THEN capped ELSE 1

\* A faulty search: the kernel of tier 1 whatever the tick scale.
KernelOne(kernelIndex) == 1

RECURSIVE KernelFor(_)
\* Lines 269-271: the search from kernelIndex = tick_scale downwards for an
\* entry of fKernels; 0 when the search comes to 0 without one.
KernelFor(kernelIndex) ==
  IF kernelIndex \in fKernels THEN kernelIndex
  ELSE IF kernelIndex <= 0 THEN 0
  ELSE KernelFor(kernelIndex - 1)

\* Lines 274-275: the offsets looped over for a cell of the given tick_scale.
BlurOffsets(tick_scale) ==
  LET lowerWidth  == -(kernels.width \div 2)
      upperWidth  == (kernels.width + 1) \div 2
      lowerHeight == -(kernels.height \div 2)
      upperHeight == (kernels.height + 1) \div 2
  IN (lowerWidth .. upperWidth - 1)
       \X (lowerHeight * tick_scale .. upperHeight * tick_scale - 1)

\* Line 278: the index into the kernel.
KernelIndex(blurx, blury) ==
  kernels.kernel_width * (kernels.kernel_height \div 2 + blury)
    + (kernels.kernel_width \div 2 + blurx)

KernelIndexInRange(i) == 0 <= i /\ i < kernels.kernel_width * kernels.kernel_height

\* Lines 259-263: the cells that are blurred.
SourceCells == DOMAIN image.at

\* Lines 240-295.  The blurred image is kept as the set of the contributions
\* of line 280, [x, y: the source cell, tier: its kernel, blurx, blury]; the
\* weights of line 595 are real numbers and are not evaluated.  A kernel
\* index out of range makes kernel.at() throw std::out_of_range.
Convolve ==
  /\ pc = "Convolve"
  /\ LET noKernel == \E c \in SourceCells : KernelFor(TickScale(ImageAt(widths, c[1], c[2]))) = 0
         badIndex == \E c \in SourceCells :
                       \E o \in BlurOffsets(TickScale(ImageAt(widths, c[1], c[2]))) :
                          ~KernelIndexInRange(KernelIndex(o[1], o[2]))
     IN IF noKernel
          THEN pc' = "error" /\ err' = "no kernel" /\ UNCHANGED smear
          ELSE IF badIndex
            THEN pc' = "error" /\ err' = "out_of_range" /\ UNCHANGED smear
            ELSE /\ pc' = "blurred" /\ err' = "none"
                 /\ smear' =
                      UNION { { [x |-> c[1], y |-> c[2],
                                 tier |-> KernelFor(TickScale(ImageAt(widths, c[1], c[2]))),
                                 blurx |-> o[1], blury |-> o[2]] :
                                o \in { o \in BlurOffsets(TickScale(ImageAt(widths, c[1], c[2]))) :
                                          /\ c[1] + o[1] >= 0 /\ c[1] + o[1] < image.nx
                                          /\ c[2] + o[2] >= 0 /\ c[2] + o[2] < image.ny } } :
                              c \in SourceCells }
  /\ UNCHANGED << p, det, hits, fLowerHistTick, fUpperHistTick, fLowerHistWire,
                  fUpperHistWire, fHitMap, image, widths, blurred, blur,
                  divByZero, kernels, fcVars >>

\* ----------------------------------------------------------- bins and hits
\* Lines 225-229.
ConvertWireTickToBin(img, xbin, ybin) == ybin * img.nx + xbin

\* Lines 231-238.
ConvertBinToCharge(img, bin) == ImageAt(img, bin % img.nx, bin \div img.nx)

\* Lines 126-147: the hit of the hit map at the wire and tick of the bin.
ConvertBinToRecobHit(img, bin) ==
  LET xbin == bin % img.nx
      ybin == bin \div img.nx
      wire == xbin + fLowerHistWire - 1
      tick == ybin + fLowerHistTick - 1
  IN IF <<wire, tick>> \in DOMAIN fHitMap THEN fHitMap[<<wire, tick>>] ELSE NullHit

\* Lines 106-124: the real hits of the bins, in the order of the bins.
ConvertBinsToRecobHits(img, bins) ==
  SelectSeq([i \in DOMAIN bins |-> ConvertBinToRecobHit(img, bins[i])],
            LAMBDA h : h # NullHit)

\* Lines 618-628.
GetTimeOfBin(img, bin) ==
  LET hit == ConvertBinToRecobHit(img, bin)
  IN IF hit = NullHit THEN NoTime ELSE hit.tick

\* Lines 672-679.
PassesTimeCut(ts, time) ==
  \E i \in DOMAIN ts : Abs(time - ts[i]) < fTimeThreshold

\* The eight neighbours in the order of the loops of lines 457-458 and 655-656.
Offsets8 == << <<-1, -1>>, <<-1, 0>>, <<-1, 1>>, <<0, -1>>,
               <<0, 1>>, <<1, -1>>, <<1, 0>>, <<1, 1>> >>

\* Lines 650-670: the used bins among the eight around bin.
NumNeighbours(nx, usedBins, bin) ==
  Cardinality({ i \in DOMAIN Offsets8 :
                  bin + Offsets8[i][1] + Offsets8[i][2] * nx \in usedBins })

\* used.at(neighbouringBin) of line 663 throws outside the vector.
NeighboursInRange(nx, n, bin) ==
  \A i \in DOMAIN Offsets8 :
     LET nb == bin + Offsets8[i][1] + Offsets8[i][2] * nx
     IN 0 <= nb /\ nb < n

\* ------------------------------------------------------------ FindClusters
nbinsx == blurred.nx
nbinsy == blurred.ny
nbins  == nbinsx * nbinsy

\* A faulty values[]: the pairs in the order lines 348-352 push them, without
\* the sort of line 356.
ValuesUnsorted(img, k) ==
  LET bin == ConvertWireTickToBin(img, k \div img.ny, k % img.ny)
  IN << ConvertBinToCharge(img, bin), bin >>

\* Lines 347-356: values[k], k from 0, of the cells sorted by decreasing
\* (charge, bin).  The cells that are not 0 (all positive) come first; the
\* cells that are 0 follow by decreasing bin.
Values(img, k) ==
  LET lit == { << img.at[c], ConvertWireTickToBin(img, c[1], c[2]) >> : c \in DOMAIN img.at }
      litBins == { v[2] : v \in lit }
      Above(v) == { u \in lit : u[1] > v[1] \/ (u[1] = v[1] /\ u[2] > v[2]) }
      r == k - Cardinality(lit)
      n == img.nx * img.ny
  IN IF k < Cardinality(lit)
       THEN CHOOSE v \in lit : Cardinality(Above(v)) = k
       ELSE << 0, CHOOSE b \in ((n - 1 - r - Cardinality(lit)) .. (n - 1 - r)) :
                    /\ b \notin litBins
                    /\ (n - 1 - b) - Cardinality({ z \in litBins : z > b }) = r >>

\* A faulty seed test, the comparison turned round.
AboveSeed(binval) == binval > fMinSeed

\* A faulty size gate, one bin short.
BelowMinSizeLessOne(size) == size < fMinSize - 1

\* Line 373: the seed is refused.
BelowSeed(binval) == binval < fMinSeed

\* Lines 447 and 514, and line 163: too small to keep.
BelowMinSize(size) == size < fMinSize

\* Lines 339-359.  blurred.at(0) throws std::out_of_range for an image
\* without columns.
FindClusters ==
  /\ pc = "FindClusters"
  /\ IF nbinsx = 0
       THEN pc' = "error" /\ err' = "out_of_range"
       ELSE pc' = "Seeding" /\ err' = "none"
  /\ used' = {} /\ niter' = 0 /\ cluster' = << >> /\ times' = << >>
  /\ UNCHANGED << p, det, hits, fLowerHistTick, fUpperHistTick, fLowerHistWire,
                  fUpperHistWire, fHitMap, image, widths, blurred, blur,
                  divByZero, kernels, smear, allcluster, clusters, oob, seeds >>

\* Lines 365-390: the top of the outer loop.  values[niter] is read without
\* a check of niter against the size of values: past the end the read is
\* undefined, and the loop ends (the value read is below fMinSeed) or the run
\* is lost.
Seeding ==
  /\ pc = "Seeding"
  /\ IF niter >= nbins
       THEN /\ oob' = TRUE
            /\ \/ pc' = "return" /\ err' = "none"
               \/ pc' = "error" /\ err' = "undefined"
            /\ cluster' = << >> /\ times' = << >>
            /\ UNCHANGED << used, niter, seeds >>
       ELSE \E value \in { Values(blurred, niter) } :
            LET blurred_binval == value[1]
                bin == value[2]
                time == GetTimeOfBin(blurred, bin)
            IN /\ UNCHANGED << oob, err >>
               /\ IF BelowSeed(blurred_binval)
                    THEN /\ pc' = "return"
                         /\ cluster' = << >> /\ times' = << >>
                         /\ UNCHANGED << used, niter, seeds >>
                    ELSE /\ niter' = niter + 1
                         /\ IF bin \in used
                              THEN /\ pc' = "Seeding"
                                   /\ cluster' = << >> /\ times' = << >>
                                   /\ UNCHANGED << used, seeds >>
                              ELSE /\ pc' = "Growing"
                                   /\ used' = used \cup {bin}
                                   /\ seeds' = Append(seeds, bin)
                                   /\ cluster' = << bin >>
                                   /\ times' = IF time > 0 THEN << time >> ELSE << >>
  /\ UNCHANGED << p, det, hits, fLowerHistTick, fUpperHistTick, fLowerHistWire,
                  fUpperHistWire, fHitMap, image, widths, blurred, blur,
                  divByZero, kernels, smear, allcluster, clusters >>

\* A faulty scan: no cell is looked at.
NoCandidates(binx, biny) == << >>

\* Lines 406-407: the cells looked at around (binx, biny), in loop order.
GrowCandidates(binx, biny) ==
  LET w == 2 * fClusterWireDistance + 1
      h == 2 * fClusterTickDistance + 1
  IN [ k \in 1..(w * h) |-> << binx - fClusterWireDistance + (k - 1) \div h,
                               biny - fClusterTickDistance + ((k - 1) % h) >> ]

\* Line 427.
AboveChargeThreshold(binval) == binval > fChargeThreshold

\* Line 423: the bin is left out for its time.
FailsTimeRule(ts, time) == time > 0 /\ Len(ts) > 0 /\ ~PassesTimeCut(ts, time)

\* Lines 408-434 for the cell (x, y) around (binx, biny), on
\* g = [cluster, used, times, nadded].
GrowTry(g, x, y, binx, biny) ==
  IF (x = binx /\ y = biny) \/ (x >= nbinsx \/ y >= nbinsy) \/ (x < 0 \/ y < 0)
    THEN g
    ELSE LET bin == ConvertWireTickToBin(blurred, x, y)
             blurred_binval == ConvertBinToCharge(blurred, bin)
             time == GetTimeOfBin(blurred, bin)
         IN IF bin >= nbinsx * nbinsy \/ bin < 0 THEN g
            ELSE IF bin \in g.used THEN g
            ELSE IF FailsTimeRule(g.times, time) THEN g
            ELSE IF AboveChargeThreshold(blurred_binval)
              THEN [ cluster |-> Append(g.cluster, bin),
                     used    |-> g.used \cup {bin},
                     times   |-> IF time > 0 THEN Append(g.times, time) ELSE g.times,
                     nadded  |-> g.nadded + 1 ]
              ELSE g

RECURSIVE GrowAround(_, _, _, _, _)
GrowAround(g, binx, biny, cands, k) ==
  IF k > Len(cands) THEN g
  ELSE GrowAround(GrowTry(g, cands[k][1], cands[k][2], binx, biny),
                  binx, biny, cands, k + 1)

RECURSIVE GrowPass(_, _)
\* Lines 398-439: the bins of the cluster from clusBin on, those added on the
\* way too.
GrowPass(g, clusBin) ==
  IF clusBin > Len(g.cluster) THEN g
  ELSE LET binx == g.cluster[clusBin] % nbinsx
           biny == ((g.cluster[clusBin] - binx) \div nbinsx) % nbinsy
       IN GrowPass(GrowAround(g, binx, biny, GrowCandidates(binx, biny), 1),
                   clusBin + 1)

RECURSIVE GrowLoop(_)
\* Lines 441-442, after a pass.
GrowAgain(after) == IF after.nadded = 0 THEN after ELSE GrowLoop(after)

\* Lines 394-444: passes until one adds nothing.
GrowLoop(g) == GrowAgain(GrowPass([g EXCEPT !.nadded = 0], 1))

Growing ==
  /\ pc = "Growing"
  /\ \E g \in { GrowLoop([cluster |-> cluster, used |-> used, times |-> times,
                           nadded |-> 0]) } :
       cluster' = g.cluster /\ used' = g.used /\ times' = g.times
  /\ pc' = "SizeGate"
  /\ UNCHANGED << err, p, det, hits, fLowerHistTick, fUpperHistTick,
                  fLowerHistWire, fUpperHistWire, fHitMap, image, widths,
                  blurred, blur, divByZero, kernels, smear, niter, allcluster,
                  clusters, oob, seeds >>

\* A faulty rejection: the bins of the cluster stay marked.
KeepMarks(usedBins, bins) == usedBins

\* Lines 448-449 and 515-516: used[cluster[i]] = false for every bin of the
\* cluster.
Unmark(usedBins, bins) == usedBins \ Range(bins)

\* Lines 446-451.
SizeGate ==
  /\ pc = "SizeGate"
  /\ IF BelowMinSize(Len(cluster))
       THEN pc' = "Seeding" /\ used' = Unmark(used, cluster)
       ELSE pc' = "HoleFilling" /\ UNCHANGED used
  /\ UNCHANGED << err, p, det, hits, fLowerHistTick, fUpperHistTick,
                  fLowerHistWire, fUpperHistWire, fHitMap, image, widths,
                  blurred, blur, divByZero, kernels, smear, niter, cluster,
                  times, allcluster, clusters, oob, seeds >>

\* A faulty border test: the last tick row is taken as inside the image.
BorderBinNoLastRow(bin) ==
  \/ bin < nbinsx
  \/ bin % nbinsx = 0
  \/ bin % nbinsx = nbinsx - 1

\* Lines 463 and 495: the bin is on the border of the image, or outside it.
BorderBin(bin) ==
  \/ bin < nbinsx
  \/ bin % nbinsx = 0
  \/ bin % nbinsx = nbinsx - 1
  \/ bin >= nbinsx * (nbinsy - 1)

\* Lines 462-476 for the neighbour Offsets8[i] of the bin cluster[clusBin], on
\* h = [cluster, used, times, threw].
FillTry(h, clusBin, i) ==
  LET neighbouringBin == h.cluster[clusBin] + Offsets8[i][1] + Offsets8[i][2] * nbinsx
  IN IF h.threw \/ BorderBin(neighbouringBin) THEN h
     ELSE LET time == GetTimeOfBin(blurred, neighbouringBin)
          IN IF neighbouringBin \in h.used THEN h
             ELSE IF ~NeighboursInRange(nbinsx, nbins, neighbouringBin)
               THEN [h EXCEPT !.threw = TRUE]
             ELSE IF /\ NumNeighbours(nbinsx, h.used, neighbouringBin) > fNeighboursThreshold
                     /\ PassesTimeCut(h.times, time)
               THEN [ h EXCEPT !.cluster = Append(h.cluster, neighbouringBin),
                               !.used = h.used \cup {neighbouringBin},
                               !.times = IF time > 0 THEN Append(h.times, time)
                                         ELSE h.times ]
               ELSE h

RECURSIVE FillAround(_, _, _)
FillAround(h, clusBin, i) ==
  IF i > Len(Offsets8) THEN h
  ELSE FillAround(FillTry(h, clusBin, i), clusBin, i + 1)

RECURSIVE FillPass(_, _)
\* Lines 454-481: the bins of the cluster from clusBin on, those added on the
\* way too.
FillPass(h, clusBin) ==
  IF clusBin > Len(h.cluster) THEN h
  ELSE FillPass(FillAround(h, clusBin, 1), clusBin + 1)

HoleFilling ==
  /\ pc = "HoleFilling"
  /\ \E h \in { FillPass([cluster |-> cluster, used |-> used, times |-> times,
                           threw |-> FALSE], 1) } :
        /\ cluster' = h.cluster /\ used' = h.used /\ times' = h.times
        /\ IF h.threw THEN pc' = "error" /\ err' = "out_of_range"
                      ELSE pc' = "Pruning" /\ err' = "none"
  /\ UNCHANGED << p, det, hits, fLowerHistTick, fUpperHistTick, fLowerHistWire,
                  fUpperHistWire, fHitMap, image, widths, blurred, blur,
                  divByZero, kernels, smear, niter, allcluster, clusters, oob, seeds >>

\* Line 498.
TooFewNeighbours(n) == n < fMinNeighbours

\* cluster.erase(cluster.begin() + clusBin), line 501; clusBin counts from 1.
Erase(s, clusBin) == SubSeq(s, 1, clusBin - 1) \o SubSeq(s, clusBin + 1, Len(s))

RECURSIVE PrunePass(_, _)
\* Lines 491-504: the bins of the cluster from clusBin down, on
\* r = [cluster, used, nremoved, threw].
PrunePass(r, clusBin) ==
  IF clusBin < 1 \/ r.threw THEN r
  ELSE LET bin == r.cluster[clusBin]
       IN IF BorderBin(bin) THEN PrunePass(r, clusBin - 1)
          ELSE IF ~NeighboursInRange(nbinsx, nbins, bin)
            THEN [r EXCEPT !.threw = TRUE]
          ELSE IF TooFewNeighbours(NumNeighbours(nbinsx, r.used, bin))
            THEN PrunePass([ r EXCEPT !.used = r.used \ {bin},
                                      !.nremoved = r.nremoved + 1,
                                      !.cluster = Erase(r.cluster, clusBin) ],
                           clusBin - 1)
            ELSE PrunePass(r, clusBin - 1)

\* A faulty loop: one pass only.
PruneOnce(after) == after

RECURSIVE PruneLoop(_)
\* Lines 506-507, after a pass.
PruneAgain(after) ==
  IF after.nremoved = 0 \/ after.threw THEN after ELSE PruneLoop(after)

\* Lines 487-508: passes until one removes nothing.
PruneLoop(r) == PruneAgain(PrunePass([r EXCEPT !.nremoved = 0], Len(r.cluster)))

Pruning ==
  /\ pc = "Pruning"
  /\ \E r \in { PruneLoop([cluster |-> cluster, used |-> used, nremoved |-> 0,
                            threw |-> FALSE]) } :
        /\ cluster' = r.cluster /\ used' = r.used
        /\ IF r.threw THEN pc' = "error" /\ err' = "out_of_range"
                      ELSE pc' = "Accept" /\ err' = "none"
  /\ UNCHANGED << p, det, hits, fLowerHistTick, fUpperHistTick, fLowerHistWire,
                  fUpperHistWire, fHitMap, image, widths, blurred, blur,
                  divByZero, kernels, smear, niter, times, allcluster, clusters,
                  oob, seeds >>

\* Lines 513-521.
Accept ==
  /\ pc = "Accept"
  /\ IF BelowMinSize(Len(cluster))
       THEN used' = Unmark(used, cluster) /\ UNCHANGED allcluster
       ELSE allcluster' = Append(allcluster, cluster) /\ UNCHANGED used
  /\ pc' = "Seeding"
  /\ UNCHANGED << err, p, det, hits, fLowerHistTick, fUpperHistTick,
                  fLowerHistWire, fUpperHistWire, fHitMap, image, widths,
                  blurred, blur, divByZero, kernels, smear, niter, cluster,
                  times, clusters, oob, seeds >>

\* Lines 525-526: FindClusters returns allcluster.size().
Return ==
  /\ pc = "return"
  /\ pc' = "ConvertBinsToClusters"
  /\ UNCHANGED << err, p, det, hits, fLowerHistTick, fUpperHistTick,
                  fLowerHistWire, fUpperHistWire, fHitMap, image, widths,
                  blurred, blur, divByZero, kernels, smear, used, niter,
                  cluster, times, allcluster, clusters, oob, seeds >>

\* ---------------------------------------------------- ConvertBinsToClusters
RECURSIVE KeptClusters(_, _, _)
\* Lines 154-170: the clusters from i on, each turned into its real hits and
\* kept when it is not below the minimum size.
KeptClusters(img, all, i) ==
  IF i > Len(all) THEN << >>
  ELSE LET clusHits == ConvertBinsToRecobHits(img, all[i])
       IN IF BelowMinSize(Len(clusHits))
            THEN KeptClusters(img, all, i + 1)
            ELSE << clusHits >> \o KeptClusters(img, all, i + 1)

ConvertBinsToClusters ==
  /\ pc = "ConvertBinsToClusters"
  /\ clusters' = KeptClusters(blurred, allcluster, 1)
  /\ pc' = "done"
  /\ UNCHANGED << err, p, det, hits, fLowerHistTick, fUpperHistTick,
                  fLowerHistWire, fUpperHistWire, fHitMap, image, widths,
                  blurred, blur, divByZero, kernels, smear, used, niter,
                  cluster, times, allcluster, oob, seeds >>

Next ==
  \/ reconfigure
  \/ ConvertRecobHitsToVector
  \/ GaussianBlur
  \/ FindBlurringParameters
  \/ MakeKernels
  \/ Convolve
  \/ FindClusters
  \/ Seeding
  \/ Growing
  \/ SizeGate
  \/ HoleFilling
  \/ Pruning
  \/ Accept
  \/ Return
  \/ ConvertBinsToClusters

Spec == Init /\ [][Next]_vars

\* ------------------------------------------- FindClusters on a given image
\* FindClusters is public and takes any image.  The images of FindClustersSpec
\* are small, with at most MaxLit cells that are not 0; the hit map holds a
\* real hit for some of them, as ConvertRecobHitsToVector stores it: the hit
\* of the cell (x, y) at wire x + fLowerHistWire and tick y + fLowerHistTick.
MaxLit == 2

GivenSizes == { <<1, 2>>, <<2, 2>>, <<3, 3>> }
GivenCharges == {1, 2}
GivenLowerWire == 0
GivenLowerTick == 100

GivenParams ==
  { [BaseParams EXCEPT !.MinSeed = sd, !.MinSize = ms, !.MinNeighbours = 1,
                       !.ChargeThreshold = ct] :
      sd \in {0, 2}, ms \in {1, 2}, ct \in {0, 1} }

GivenImages ==
  UNION { { [nx |-> d[1], ny |-> d[2], at |-> f] :
            f \in UNION { [cells -> GivenCharges] :
                          cells \in { c \in SUBSET ((0..d[1] - 1) \X (0..d[2] - 1)) :
                                        Cardinality(c) <= MaxLit } } } :
          d \in GivenSizes }

HitMapOf(img, real) ==
  [ k \in { << c[1] + GivenLowerWire, c[2] + GivenLowerTick >> : c \in real } |->
      Hit(k[1], k[2], img.at[<< k[1] - GivenLowerWire, k[2] - GivenLowerTick >>], 1) ]

GivenInit ==
  /\ pc = "FindClusters"
  /\ err = "none"
  /\ p \in GivenParams
  /\ det = [rows |-> 4492, wires |-> 480]
  /\ hits = << >>
  /\ blurred \in GivenImages
  /\ image = blurred /\ widths = NoImage
  /\ fLowerHistWire = GivenLowerWire /\ fUpperHistWire = GivenLowerWire + blurred.nx
  /\ fLowerHistTick = GivenLowerTick /\ fUpperHistTick = GivenLowerTick + blurred.ny
  /\ \E real \in SUBSET DOMAIN blurred.at : fHitMap = HitMapOf(blurred, real)
  /\ blur = NoBlur /\ divByZero = FALSE
  /\ kernels = NoKernels /\ smear = {}
  /\ used = {} /\ niter = 0 /\ cluster = << >> /\ times = << >>
  /\ allcluster = << >> /\ oob = FALSE /\ clusters = << >>
  /\ seeds = << >>

GivenNext ==
  \/ FindClusters
  \/ Seeding
  \/ Growing
  \/ SizeGate
  \/ HoleFilling
  \/ Pruning
  \/ Accept
  \/ Return
  \/ ConvertBinsToClusters

FindClustersSpec == GivenInit /\ [][GivenNext]_vars

\* ================================================================== claims
HitA == Hit(10, 100, 50, 2)
HitB == Hit(11, 101, 40, 6)
HitC == Hit(50, 500, 10, 1)

\* The run is over: its clusters are made, or an exception or an undefined
\* step ended it.
RunOver == pc \in {"done", "error"}

\* ConvertRecobHitsToVector was called.
Converted == pc \notin {"construct", "ready"} /\ err # "Configuration"

\* The bin of the cell ConvertRecobHitsToVector gives the hit h (line 211).
CellBinOf(img, h) ==
  ConvertWireTickToBin(img, h.wire - fLowerHistWire, h.tick - fLowerHistTick)

\* C1: the run on the hits (10, 100, 50), (11, 101, 40), (50, 500, 10) with
\* minimum size 2, seed minimum 20, no blur, clustering distances of at least
\* 1, a charge threshold below 40, a time threshold above 1 and at most 1
\* minimum neighbour ends with exactly one cluster, of exactly the first two
\* hits.
C1_Scenario ==
  /\ hits = << HitA, HitB, HitC >>
  /\ fMinSize = 2 /\ fMinSeed = 20 /\ BlurBypassed
  /\ fClusterWireDistance >= 1 /\ fClusterTickDistance >= 1
  /\ fChargeThreshold < 40 /\ fTimeThreshold > 1 /\ fMinNeighbours <= 1
C1_OneClusterOfFirstTwoHits ==
  (C1_Scenario /\ RunOver) =>
     /\ pc = "done"
     /\ Len(clusters) = 1
     /\ Len(clusters[1]) = 2
     /\ Range(clusters[1]) = {HitA, HitB}

\* C2: the run on one hit whose charge is the seed minimum, with minimum size
\* 1, no blur and 0 minimum neighbours, ends with exactly one cluster, of
\* exactly that hit.
C2_Scenario ==
  /\ Len(hits) = 1 /\ hits[1].charge = fMinSeed
  /\ fMinSize = 1 /\ BlurBypassed /\ fMinNeighbours = 0
C2_OneClusterOfTheHit ==
  (C2_Scenario /\ RunOver) => (pc = "done" /\ clusters = << << hits[1] >> >>)

\* C3: ConvertBinToRecobHit on the bin of the cell a hit was stored at gives
\* that hit, and on the bin of a cell no hit was stored at gives the null hit.
C3_LookupInvertsImage ==
  (pc = "image") =>
     /\ \A k \in DOMAIN fHitMap :
           ConvertBinToRecobHit(image, CellBinOf(image, fHitMap[k])) = fHitMap[k]
     /\ \A k \in DOMAIN fHitMap :
           LET above == CellBinOf(image, fHitMap[k]) + image.nx + 1
           IN (\A j \in DOMAIN fHitMap : CellBinOf(image, fHitMap[j]) # above)
                 => ConvertBinToRecobHit(image, above) = NullHit

\* C4: for an empty hit list, whatever the detector, no error is raised, the
\* image has sizes that are not negative, no cell that is not 0 and an empty
\* hit map, and the run ends with no cluster.
C4_EmptyHitsNoError ==
  (hits = << >> /\ Converted) =>
     /\ err = "none" /\ pc # "error"
     /\ image.nx >= 0 /\ image.ny >= 0
     /\ DOMAIN image.at = {} /\ DOMAIN fHitMap = {}
     /\ allcluster = << >> /\ clusters = << >>

\* C5: the seeding loop never reads values[] at or past the number of cells,
\* and ends on a candidate below the seed minimum or with every cell taken.
C5_SeedingEndsInsideValues ==
  /\ ~oob
  /\ (pc = "return") =>
        \/ niter = nbins
        \/ niter < nbins /\ blurred # NoImage /\ Values(blurred, niter)[1] < fMinSeed

\* C6: every bin cluster FindClusters gives has at least MinSize bins and
\* every hit cluster ConvertBinsToClusters gives has at least MinSize hits.
C6_SizeFilters ==
  /\ \A i \in DOMAIN allcluster : Cardinality(Range(allcluster[i])) >= fMinSize
  /\ \A i \in DOMAIN clusters : Cardinality(Range(clusters[i])) >= fMinSize
\* A run that gave two bin clusters, kept one with its hits and dropped the
\* other for its hits.
C6_Witness == pc = "done" /\ Len(allcluster) = 2 /\ Len(clusters) = 1

\* C7: when the hits of the hit map have no spread along the wires,
\* FindBlurringParameters does not divide by zero and gives radii and sigmas
\* of magnitude at least 1.
FoundBlurringParameters == blur # NoBlur \/ divByZero
C7_DegenerateSlopeHandled ==
  (FoundBlurringParameters /\ DOMAIN fHitMap # {} /\ GradientDen = 0) =>
     /\ ~divByZero /\ err = "none"
     /\ Abs(blur.blurwire) >= 1 /\ Abs(blur.blurtick) >= 1
     /\ Abs(blur.sigmawire) >= 1 /\ Abs(blur.sigmatick) >= 1

\* C8: when exactly two hits of the list land on a cell, in either order, the
\* cell holds the larger charge and, when one charge is the larger, its width,
\* and the hit map holds that hit at their wire and tick.
SameCell(g, h) == g.wire = h.wire /\ g.tick = h.tick
C8_ChargeMaxMerge ==
  (pc = "image") =>
     \A i, j \in DOMAIN hits :
        ( /\ i # j /\ SameCell(hits[i], hits[j])
          /\ \A k \in DOMAIN hits : SameCell(hits[k], hits[i]) => k \in {i, j}
          /\ hits[i].charge >= hits[j].charge )
        => LET x == hits[i].wire - fLowerHistWire
               y == hits[i].tick - fLowerHistTick
               key == << hits[i].wire, hits[i].tick >>
           IN /\ ImageAt(image, x, y) = hits[i].charge
              /\ key \in DOMAIN fHitMap
              /\ (hits[i].charge > hits[j].charge) =>
                    /\ ImageAt(widths, x, y) = hits[i].rms
                    /\ fHitMap[key] = hits[i]
\* The smaller hit came first and the larger took its cell.
C8_Witness ==
  /\ pc = "image"
  /\ \E i, j \in DOMAIN hits :
        i < j /\ SameCell(hits[i], hits[j]) /\ hits[i].charge < hits[j].charge

\* C9: kernels without 1 end the constructor with a configuration error,
\* before any hit is read; with 1 among them there is no configuration error
\* and Convolve finds a kernel for every cell.
C9_KernelsChecked ==
  /\ (pc # "construct" /\ 1 \notin fKernels) =>
        /\ pc = "error" /\ err = "Configuration"
        /\ hits = << >> /\ image = NoImage /\ blurred = NoImage /\ smear = {}
  /\ (pc # "construct" /\ 1 \in fKernels) => err \notin {"Configuration", "no kernel"}
\* Convolve ran and a cell fell back to a kernel below its tick scale.
C9_Witness ==
  /\ pc = "blurred"
  /\ \E c \in smear : c.tier < TickScale(ImageAt(widths, c.x, c.y))

\* C10: when every cell of a non-empty image handed to FindClusters is below
\* the seed minimum, FindClusters marks no cell, gives no cluster and raises
\* nothing, and the run ends with no hit cluster.
AllBelowSeed ==
  /\ nbins > 0
  /\ \A c \in DOMAIN blurred.at : blurred.at[c] < fMinSeed
  /\ 0 < fMinSeed
C10_NothingBelowSeed ==
  AllBelowSeed =>
     /\ used = {} /\ allcluster = << >> /\ clusters = << >>
     /\ err = "none" /\ ~oob
     /\ pc \in {"FindClusters", "Seeding", "return", "ConvertBinsToClusters", "done"}
C10_Witness == AllBelowSeed /\ pc = "done" /\ hits # << >>

\* C11: in a run of FindClusters the bins taken as seeds, kept or dropped
\* later, have charges that never increase, each at least the seed minimum,
\* and no bin is taken as a seed twice.
SeedCharge(i) == ConvertBinToCharge(blurred, seeds[i])
C11_MonotonicSeeding ==
  /\ \A i \in DOMAIN seeds : SeedCharge(i) >= fMinSeed
  /\ \A i, j \in DOMAIN seeds :
        i < j => (SeedCharge(i) >= SeedCharge(j) /\ seeds[i] # seeds[j])
\* A finished run of three seeds or more, of different charges, one of them
\* dropped again.
C11_Witness ==
  /\ pc = "done" /\ Len(seeds) >= 3
  /\ \E i, j \in DOMAIN seeds : i < j /\ SeedCharge(i) > SeedCharge(j)
  /\ \E i \in DOMAIN seeds : seeds[i] \notin used

\* C12: when the pruning loop has ended, every bin of the cluster that is not
\* on the border has at least MinNeighbours used bins around it, and one more
\* pruning pass removes nothing and changes neither the cluster nor the used
\* bins.
PrunedOnceMore ==
  PrunePass([cluster |-> cluster, used |-> used, nremoved |-> 0, threw |-> FALSE],
            Len(cluster))
C12_PruningIdempotent ==
  (pc = "Accept") =>
     /\ \A i \in DOMAIN cluster :
           ~BorderBin(cluster[i]) =>
              NumNeighbours(nbinsx, used, cluster[i]) >= fMinNeighbours
     /\ PrunedOnceMore.nremoved = 0
     /\ PrunedOnceMore.cluster = cluster
     /\ PrunedOnceMore.used = used
\* The pruning removed the seed of the cluster and left other bins.
C12_Witness ==
  /\ pc = "Accept" /\ cluster # << >> /\ fMinNeighbours > 0
  /\ seeds[Len(seeds)] \notin Range(cluster)

\* C13: with 1 among the kernels, the tick scale of every source cell is in
\* 1..MaxTickWidthScale (1 when that is below 1), and the search from it ends
\* on the largest entry of fKernels that is not above it, an entry that is
\* at least 1 and has a kernel in the map; every contribution Convolve added
\* used that kernel.
TierOf(c) == TickScale(ImageAt(widths, c[1], c[2]))
LargestTierUpTo(tick_scale, k) ==
  /\ k \in fKernels /\ k >= 1 /\ k <= tick_scale
  /\ \A j \in fKernels : j <= tick_scale => j <= k
C13_KernelCoverage ==
  (kernels # NoKernels) =>
     /\ 1 \in fKernels
     /\ \A c \in SourceCells :
           /\ TierOf(c) >= 1
           /\ (fMaxTickWidthScale >= 1) => (TierOf(c) <= fMaxTickWidthScale)
           /\ (fMaxTickWidthScale < 1) => (TierOf(c) = 1)
           /\ LargestTierUpTo(TierOf(c), KernelFor(TierOf(c)))
           /\ KernelFor(TierOf(c)) \in kernels.tiers
     /\ \A s \in smear : LargestTierUpTo(TierOf(<< s.x, s.y >>), s.tier)
\* Convolve ran on cells of which one used the kernel of its own tick scale 3
\* and one of tick scale 2 used the kernel of tier 1.
C13_Witness ==
  /\ pc = "blurred"
  /\ \E s \in smear : s.tier = 3
  /\ \E s \in smear : s.tier = 1 /\ TierOf(<< s.x, s.y >>) = 2

\* C14: with both sigmas 0 GaussianBlur gives the image it was given, cell for
\* cell, and runs neither FindBlurringParameters nor the making of the
\* kernels nor Convolve; with a sigma that is not 0 it runs them.
BlurCalled ==
  pc \notin {"construct", "ready", "image"} /\ err \notin {"Configuration", "length_error"}
BlurSteps == {"FindBlurringParameters", "kernels", "Convolve", "blurred"}
C14_BlurBypass ==
  BlurCalled =>
     /\ (fSigmaWire = 0 /\ fSigmaTick = 0) =>
           /\ blurred = image
           /\ blur = NoBlur /\ ~divByZero /\ kernels = NoKernels /\ smear = {}
           /\ pc \notin BlurSteps
     /\ (fSigmaWire # 0 \/ fSigmaTick # 0) =>
           /\ pc \in BlurSteps \cup {"error"}
           /\ (pc # "FindBlurringParameters") => (blur # NoBlur \/ divByZero)
\* The blur was bypassed for hits that are all on one wire.
C14_Witness ==
  /\ pc = "FindClusters" /\ fSigmaWire = 0 /\ fSigmaTick = 0
  /\ DOMAIN fHitMap # {} /\ GradientDen = 0
  /\ blurred = image /\ DOMAIN blurred.at # {}

\* C15: for radii of at least 1 and a tick scale in 1..MaxTickWidthScale,
\* every offset Convolve loops over for a source cell gives an index into the
\* kernel that is inside the kernel, and Convolve does not throw.
C15_KernelIndexInside ==
  /\ (pc = "Convolve" /\ blur.blurwire >= 1 /\ blur.blurtick >= 1) =>
        \A c \in SourceCells :
           (1 <= TierOf(c) /\ TierOf(c) <= fMaxTickWidthScale) =>
              \A o \in BlurOffsets(TierOf(c)) :
                 KernelIndexInRange(KernelIndex(o[1], o[2]))
  /\ (kernels # NoKernels) => (err # "out_of_range")

\* C16: the hole filling admits a bin around a cluster bin, not used, not on
\* the border and with more used bins around it than the neighbours
\* threshold, under the time rule of the growing: always when the bin is no
\* real hit or the cluster has no time yet, and a real hit when its time is
\* within the time threshold of a time of the cluster.  So a hole filling
\* that added nothing left no such bin.
FillCandidates ==
  { cluster[i] + Offsets8[k][1] + Offsets8[k][2] * nbinsx :
      i \in DOMAIN cluster, k \in DOMAIN Offsets8 }
C16_FillingUsesGrowingTimeRule ==
  [][ (pc = "HoleFilling" /\ pc' = "Pruning" /\ cluster' = cluster) =>
        \A n \in FillCandidates :
           ( /\ ~BorderBin(n) /\ n \notin used
             /\ NumNeighbours(nbinsx, used, n) > fNeighboursThreshold )
           => FailsTimeRule(times, GetTimeOfBin(blurred, n)) ]_vars

\* C17: for a tick scale ceiling of at least 1, the cells a source cell
\* contributes to are exactly the cells of the image within blurwire wires
\* and blurtick * MaxTickWidthScale ticks of it, whatever its tick scale, and
\* cells that are 0 contribute nothing.
Footprint(c) ==
  { << s.x + s.blurx, s.y + s.blury >> :
      s \in { t \in smear : t.x = c[1] /\ t.y = c[2] } }
KernelWindow(c) ==
  { d \in ((c[1] - blur.blurwire) .. (c[1] + blur.blurwire))
           \X ((c[2] - blur.blurtick * fMaxTickWidthScale)
                 .. (c[2] + blur.blurtick * fMaxTickWidthScale)) :
      /\ 0 <= d[1] /\ d[1] < image.nx
      /\ 0 <= d[2] /\ d[2] < image.ny }
C17_FootprintIsKernelWindow ==
  (pc = "blurred" /\ fMaxTickWidthScale >= 1) =>
     /\ \A c \in SourceCells : Footprint(c) = KernelWindow(c)
     /\ \A s \in smear : ImageAt(image, s.x, s.y) # 0

\* C18: after the pruning every bin of the cluster that is not on the border
\* has at least MinNeighbours bins of the same cluster among the eight around
\* it; bins of clusters given before do not keep it.
SameClusterNeighbours(bin) == NumNeighbours(nbinsx, Range(cluster), bin)
C18_PruningCountsOwnCluster ==
  (pc = "Accept") =>
     \A i \in DOMAIN cluster :
        ~BorderBin(cluster[i]) => SameClusterNeighbours(cluster[i]) >= fMinNeighbours

\* C19: when the growing of a cluster has ended, no cell of the image that is
\* unused and within the clustering distances of a bin of the cluster has a
\* charge above the charge threshold and passes the time rule against the
\* times of the cluster; every bin grown into the cluster has a charge above
\* the threshold and was unused: it is in the cluster once and in no cluster
\* given before.
AcceptedBins == UNION { Range(allcluster[k]) : k \in DOMAIN allcluster }
WithinReach(bin) ==
  { c \in (((bin % nbinsx) - fClusterWireDistance)
             .. ((bin % nbinsx) + fClusterWireDistance))
          \X (((bin \div nbinsx) - fClusterTickDistance)
                .. ((bin \div nbinsx) + fClusterTickDistance)) :
      /\ 0 <= c[1] /\ c[1] < nbinsx
      /\ 0 <= c[2] /\ c[2] < nbinsy }
C19_GrowingFixedPoint ==
  (pc = "SizeGate") =>
     /\ \A i \in DOMAIN cluster : \A c \in WithinReach(cluster[i]) :
           LET bin == ConvertWireTickToBin(blurred, c[1], c[2])
           IN (bin \notin used) =>
                 \/ ConvertBinToCharge(blurred, bin) <= fChargeThreshold
                 \/ FailsTimeRule(times, GetTimeOfBin(blurred, bin))
     /\ \A i \in 2..Len(cluster) :
           ConvertBinToCharge(blurred, cluster[i]) > fChargeThreshold
     /\ Cardinality(Range(cluster)) = Len(cluster)
     /\ Range(cluster) \cap AcceptedBins = {}
\* The growing added a bin and left out, for its time, a hit within reach
\* and above the charge threshold.
C19_Witness ==
  /\ pc = "SizeGate" /\ Len(cluster) >= 2
  /\ \E i \in DOMAIN cluster : \E c \in WithinReach(cluster[i]) :
        /\ ConvertWireTickToBin(blurred, c[1], c[2]) \notin used
        /\ ImageAt(blurred, c[1], c[2]) > fChargeThreshold

\* C20: at the top of the outer loop of FindClusters and after it, the used
\* bins are the bins of the clusters given so far (so a dropped attempt
\* leaves the used bins as they were before its seed); these clusters share
\* no bin and hold no bin twice, and the hit clusters made of them share no
\* hit.
C20_UsedMask ==
  /\ (pc \in {"Seeding", "return", "ConvertBinsToClusters", "done"}) =>
        (used = AcceptedBins)
  /\ \A i, j \in DOMAIN allcluster :
        i < j => (Range(allcluster[i]) \cap Range(allcluster[j]) = {})
  /\ \A i \in DOMAIN allcluster :
        Cardinality(Range(allcluster[i])) = Len(allcluster[i])
  /\ \A i, j \in DOMAIN clusters :
        i < j => (Range(clusters[i]) \cap Range(clusters[j]) = {})
\* A finished run that gave a cluster and dropped an attempt.
C20_Witness ==
  /\ pc = "done" /\ Len(clusters) >= 1
  /\ Len(seeds) > Len(allcluster)
\* The bins that lines 462 and 493 can form: a bin of the image, moved by one
\* column and one row at most.
FormedBins == (0 - nbinsx - 1) .. (nbins + nbinsx)

\* The eight neighbours of the bin as NumNeighbours forms them are the cells
\* of the image one column and one row away at most: none is in another row
\* than its offset says.
TrueNeighbours(bin) ==
  \A i \in DOMAIN Offsets8 :
     LET nb == bin + Offsets8[i][1] + Offsets8[i][2] * nbinsx
     IN /\ nb % nbinsx = (bin % nbinsx) + Offsets8[i][1]
        /\ nb \div nbinsx = (bin \div nbinsx) + Offsets8[i][2]

\* C21: hole filling and pruning count the neighbours of bins strictly inside
\* the image only: every bin they can form that passes the border test of
\* lines 463 and 495 has its eight neighbours inside the used bins, each the
\* true neighbour in the image with no wrap into another row, so neither
\* step ends with the out-of-range error of used.at; this for cluster bins
\* on the border and for images of fewer than three rows or columns.
C21_NeighboursInsideMask ==
  /\ (nbinsx > 0) =>
        \A bin \in FormedBins :
           (~BorderBin(bin)) =>
              /\ NeighboursInRange(nbinsx, nbins, bin)
              /\ TrueNeighbours(bin)
  /\ (pc = "HoleFilling") =>
        ~FillPass([cluster |-> cluster, used |-> used, times |-> times,
                   threw |-> FALSE], 1).threw
  /\ (pc = "Pruning") =>
        ~PruneLoop([cluster |-> cluster, used |-> used, nremoved |-> 0,
                    threw |-> FALSE]).threw
\* Pruning has counted the neighbours of a bin inside the image and kept it,
\* in a cluster that holds a bin of the border too.
C21_Witness ==
  /\ pc = "Accept"
  /\ \E i, j \in DOMAIN cluster :
        ~BorderBin(cluster[i]) /\ BorderBin(cluster[j])
====
